---- MODULE Spec2Model ----
(***************************************************************************)
(* Model of the LED compositing pipeline: the layer store guarded by the   *)
(* PipelineManager mutex (AddLayer, RemoveLayer), the render loop started  *)
(* by StartLoop, and renderFrame with its snapshot/evict, sort, clear,     *)
(* execute and send phases.                                                *)
(*                                                                         *)
(* Time is an integer clock.  Channel values are fixed-point numbers in    *)
(* units of 1/Unit, so that a script argument of 1.0 is Unit and a stored  *)
(* channel of 255.0 is MaxChan * Unit.                                     *)
(***************************************************************************)
EXTENDS Integers, Sequences, FiniteSets, TLC

\* ---------------------------------------------------------------- bounds
\* The clock runs from the start time to MaxTime; the clients make MaxCalls
\* calls in all; priorities range over -PrioritySpan..0 and timeouts over
\* 0..MaxTimeout.  LEDCount is the strip length (LED_COUNT, 60 on the
\* device), modelled with a short strip.  Unit is the fixed-point resolution.
MaxTime == 3
MaxCalls == 2
PrioritySpan == 1
MaxTimeout == 1
LEDCount == 2
Unit == 2
MaxLeds == 2

\* ------------------------------------------------------- program constants
\* MaxChan: the 255 of set_pixel and fixColor.  ZeroTime: the zero time.Time,
\* for which IsZero() holds.  GreenBias, BlueBias: 0x88 and 0x66 of fixColor.
MaxChan == 255
ZeroTime == 0
ModeOverwrite == 0
ModeBase == 1
GreenBias == 136
BlueBias == 102
DATA_HIGH == 31
DATA_LOW == 3
RESET_BYTES == 40
BITS_PER_LED == 24
MaxInsertion == 12

\* ------------------------------------------------------------ input sets
\* "PERSISTENT" stands for any kind other than BASE and TEMPORARY.  The
\* scripts: "red0" paints pixel 0 red; "green0" paints it green; "fault"
\* writes the last pixel green, raises a runtime error, and would then write
\* pixel 0 blue; "syntax" does not parse.  Each client is a request handler calling AddLayer or
\* RemoveLayer; each starter is a caller of StartLoop and names the render
\* goroutine it starts.
Names == {"base_black", "a", "b"}
ValidTypes == {"BASE", "TEMPORARY"}
Types == ValidTypes \cup {"PERSISTENT"}
ReqCodes == {"red0", "fault", "syntax"}
Priorities == (0 - PrioritySpan)..0
Timeouts == 0..MaxTimeout
Clients == {"c1", "c2"}
Starters == {"main"}
Free == "free"

VARIABLES
    layers,       \* p.layers: name -> RenderLayer, for the names present
    mutex,        \* p.mutex: Free or the thread that holds it
    isRunning,    \* p.isRunning
    pixelBuffer,  \* p.pixelBuffer: [0..LEDCount*3-1 -> channel value]
    startTime,    \* p.startTime
    now,          \* the wall clock
    calls,        \* number of API calls made so far
    cpc,          \* per client: position in AddLayer / RemoveLayer
    carg,         \* per client: the layer (AddLayer) or name (RemoveLayer) argument
    cpre,         \* per client: the store when the call acquired the mutex
    cret,         \* per client: the call's result, "ok" / "err"
    center,       \* per client: the clock when the call acquired the mutex
    spc,          \* per StartLoop caller: position in StartLoop
    lpc,          \* per render goroutine: position in the loop / renderFrame
    tickerC,      \* per render goroutine: ticker.C holds a firing
    currentTime,  \* renderFrame local
    activeLayers, \* renderFrame local
    pos,          \* renderFrame local: index of the next layer to execute
    tickPre,      \* the store when the tick acquired the mutex
    executed,     \* names of the layers executed in this tick, in order
    execArgs,     \* the times handed to each execute call of this tick, in order
    failed,       \* names of the layers whose script failed in this tick
    frame,        \* bytes handed to SendColors in this tick
    sendResult,   \* "none" / "ok" / "err": outcome of SendColors in this tick
    prevFailed,   \* per render goroutine: an earlier tick had a script or send failure
    host,         \* a script's calls of set_pixel / get_pixel: arguments and results
    spi,          \* a call of ws2812_send_colors: input bytes and transmit buffer
    fix,          \* a call of fixColor: input triple and output triple
    list          \* the GET /api/layers handler: position, keys to visit, result

vars == <<layers, mutex, isRunning, pixelBuffer, startTime, now, calls,
          cpc, carg, cpre, cret, center, spc, lpc, tickerC,
          currentTime, activeLayers, pos, tickPre, executed, execArgs, failed,
          frame, sendResult, prevFailed, host, spi, fix, list>>

apiVars == <<calls, cpc, carg, cpre, cret, center>>
tickVars == <<currentTime, activeLayers, pos, tickPre, executed, execArgs,
              failed, frame, sendResult>>
loopVars == <<spc, lpc, tickerC, prevFailed>>
fnVars == <<host, spi, fix>>

\* ------------------------------------------------------------ small helpers
Min(a, b) == IF a < b THEN a ELSE b
Max(a, b) == IF a > b THEN a ELSE b
NoLayers == [n \in {} |-> 0]
NoArg == [Name |-> ""]
Pixels == 0..(LEDCount * 3 - 1)
ZeroBuffer == [i \in Pixels |-> 0]

\* A Lua number is a float64: a fixed-point value in units of 1/Unit, or NaN
\* (the value of 0/0 in a script), which has a code outside every other value.
NaN == 0 - 1000000

\* The side variables when no call of theirs is under way.
HostIdle ==
    [pc |-> "idle", wrote |-> FALSE, index |-> 0, r |-> 0, g |-> 0, b |-> 0,
     pre |-> ZeroBuffer, ret |-> <<0, 0, 0>>]
SpiIdle ==
    [pc |-> "idle", fd |-> 0, rgb_data |-> <<>>, num_leds |-> 0, tx |-> <<>>,
     ret |-> 0]
FixIdle == [pc |-> "idle", in |-> <<0, 0, 0>>, out |-> <<0, 0, 0>>]
ListIdle == [pc |-> "idle", keys |-> {}, out |-> NoLayers, seen |-> {}]

\* History kept while the Range of a GET /api/layers is under way: every
\* content the store has had since the Range began.
Observe(l, m) == IF l.pc = "range" THEN [l EXCEPT !.seen = @ \cup {m}] ELSE l

\* Variant of CanLock: Lock never waits.
CanLock_Always(m) == TRUE

\* p.mutex.Lock() returns only when nobody holds the mutex.
CanLock(m) == m = Free

\* sync.Map operations on the store
Delete(m, k) == [n \in (DOMAIN m) \ {k} |-> m[n]]
Store(m, k, v) == [n \in (DOMAIN m) \cup {k} |-> IF n = k THEN v ELSE m[n]]

\* RenderLayer as decoded from a request body: AddedAt and BlendMode carry
\* json:"-" and so hold their zero values.
RenderLayer(name, code, type, priority, timeout) ==
    [Name |-> name, Code |-> code, Type |-> type, Priority |-> priority,
     BlendMode |-> ModeOverwrite, TimeoutSeconds |-> timeout, AddedAt |-> ZeroTime]

\* The request bodies the clients send.  Every name is sent with every valid
\* kind and timeout and once with an unknown kind; the added names are also
\* sent with the other priorities and, as TEMPORARY, with the failing scripts
\* and with a negative timeout and the script that paints pixel 0 green.
Requests ==
    {RenderLayer(n, "red0", t, 0, d) : n \in Names, t \in ValidTypes, d \in Timeouts}
    \cup {RenderLayer(n, "red0", t, 0, 0) : n \in Names, t \in Types}
    \cup {RenderLayer(n, "red0", t, p, 0) :
              n \in Names \ {"base_black"}, t \in ValidTypes, p \in Priorities}
    \cup {RenderLayer(n, c, "TEMPORARY", 0, 0) :
              n \in Names \ {"base_black"}, c \in ReqCodes}
    \cup {RenderLayer(n, "green0", "TEMPORARY", 0, 0 - MaxTimeout) :
              n \in Names \ {"base_black"}}

\* ------------------------------------------------------------------ scripts
\* A script is a list of statements; "set_pixel" calls the host function and
\* "error" raises a runtime fault.  A script that does not parse never runs.
\* The index of a statement is the Lua number of the integer literal i.
SetPixelStmt(i, r, g, b) ==
    [op |-> "set_pixel", index |-> i * Unit, r |-> r, g |-> g, b |-> b]
ErrorStmt == [op |-> "error"]

Program(code) ==
    CASE code = "black" ->
            [parses |-> TRUE,
             body |-> [k \in 1..LEDCount |-> SetPixelStmt(k - 1, 0, 0, 0)]]
      [] code = "red0" ->
            [parses |-> TRUE, body |-> <<SetPixelStmt(0, Unit, 0, 0)>>]
      [] code = "green0" ->
            [parses |-> TRUE, body |-> <<SetPixelStmt(0, 0, Unit, 0)>>]
      [] code = "fault" ->
            [parses |-> TRUE,
             body |-> <<SetPixelStmt(LEDCount - 1, 0, Unit, 0), ErrorStmt,
                        SetPixelStmt(0, 0, 0, Unit)>>]
      [] OTHER -> [parses |-> FALSE, body |-> <<>>]

\* int(L.CheckNumber(1)): the conversion of a Lua number to int drops the
\* fraction, rounding toward zero.
ToInt(x) == IF x >= 0 THEN x \div Unit ELSE 0 - ((0 - x) \div Unit)

\* Variant of ClampChan: the argument is not scaled by 255.
ClampChan_NoScale(x) == IF x = NaN THEN NaN ELSE Max(0, Min(MaxChan * Unit, x))

\* set_pixel: scale by 255 and clamp to [0, 255] with math.Min and math.Max,
\* both of which return NaN for a NaN argument; ignore an index out of range.
ClampChan(x) == IF x = NaN THEN NaN ELSE Max(0, Min(MaxChan * Unit, x * MaxChan))

\* Variant of SetPixel: an index out of range wraps around the strip.
SetPixel_Wrap(buf, indexIn, rIn, gIn, bIn) ==
    [buf EXCEPT ![(ToInt(indexIn) % LEDCount) * 3] = ClampChan(rIn),
                ![(ToInt(indexIn) % LEDCount) * 3 + 1] = ClampChan(gIn),
                ![(ToInt(indexIn) % LEDCount) * 3 + 2] = ClampChan(bIn)]

SetPixel(buf, indexIn, rIn, gIn, bIn) ==
    IF ToInt(indexIn) >= 0 /\ ToInt(indexIn) < LEDCount
    THEN [buf EXCEPT ![ToInt(indexIn) * 3] = ClampChan(rIn),
                     ![ToInt(indexIn) * 3 + 1] = ClampChan(gIn),
                     ![ToInt(indexIn) * 3 + 2] = ClampChan(bIn)]
    ELSE buf

\* get_pixel: a stored channel divided by 255, or black for an index out of
\* range.  Every stored channel is a multiple of 255 in units of 1/Unit.
GetChan(v) == IF v = NaN THEN NaN ELSE v \div MaxChan

GetPixel(buf, indexIn) ==
    IF ToInt(indexIn) >= 0 /\ ToInt(indexIn) < LEDCount
    THEN <<GetChan(buf[ToInt(indexIn) * 3]), GetChan(buf[ToInt(indexIn) * 3 + 1]),
           GetChan(buf[ToInt(indexIn) * 3 + 2])>>
    ELSE <<0, 0, 0>>

\* L.DoString on a parsed chunk: statements run in order until one faults;
\* the buffer is written in place, so writes made before the fault stay.
RECURSIVE RunStmts(_, _, _)
RunStmts(body, k, buf) ==
    IF k > Len(body) THEN [buf |-> buf, err |-> FALSE]
    ELSE IF body[k].op = "error" THEN [buf |-> buf, err |-> TRUE]
    ELSE RunStmts(body, k + 1,
                  SetPixel(buf, body[k].index, body[k].r, body[k].g, body[k].b))

\* Variant of Execute: a failing script's writes are undone.
Execute_Rollback(layer, buf, pipelineTime, layerElapsedTime) ==
    IF Program(layer.Code).parses
    THEN [buf |-> IF RunStmts(Program(layer.Code).body, 1, buf).err
                  THEN buf ELSE RunStmts(Program(layer.Code).body, 1, buf).buf,
          err |-> RunStmts(Program(layer.Code).body, 1, buf).err]
    ELSE [buf |-> buf, err |-> TRUE]

\* RenderLayer.execute.  The two times are what get_time and
\* get_layer_elapsed_time return; none of the scripts above calls them.
Execute(layer, buf, pipelineTime, layerElapsedTime) ==
    IF Program(layer.Code).parses
    THEN RunStmts(Program(layer.Code).body, 1, buf)
    ELSE [buf |-> buf, err |-> TRUE]

\* ------------------------------------------------------------ AddLayer logic
\* Variant of ClassifyLayer: an unknown kind falls through to the store.
ClassifyLayer_AcceptAll(layer, t) ==
    CASE layer.Type = "BASE" ->
            [ok |-> TRUE, layer |-> [layer EXCEPT !.BlendMode = ModeBase]]
      [] layer.Type = "TEMPORARY" ->
            [ok |-> TRUE,
             layer |-> [layer EXCEPT !.BlendMode = ModeOverwrite, !.AddedAt = t]]
      [] OTHER -> [ok |-> TRUE, layer |-> layer]

\* The switch on layer.Type: the layer as amended, or ok = FALSE for the error.
ClassifyLayer(layer, t) ==
    CASE layer.Type = "BASE" ->
            [ok |-> TRUE, layer |-> [layer EXCEPT !.BlendMode = ModeBase]]
      [] layer.Type = "TEMPORARY" ->
            [ok |-> TRUE,
             layer |-> [layer EXCEPT !.BlendMode = ModeOverwrite, !.AddedAt = t]]
      [] OTHER -> [ok |-> FALSE, layer |-> layer]

\* Variant of IsOtherBase: the name comparison is inverted.
IsOtherBase_SameName(l, layer) == l.Type = "BASE" /\ l.Name = layer.Name

\* The Range callback's condition for deleting stored layer l.
IsOtherBase(l, layer) == l.Type = "BASE" /\ l.Name # layer.Name

\* Variant of ResolveAddedAt: an existing entry's AddedAt is never inherited.
ResolveAddedAt_NoInherit(layer, m, t) ==
    IF layer.AddedAt = ZeroTime THEN t ELSE layer.AddedAt

\* The AddedAt the stored entry gets, given the store m and the clock t.
ResolveAddedAt(layer, m, t) ==
    IF layer.Name \in DOMAIN m
    THEN IF layer.Type # "TEMPORARY" THEN m[layer.Name].AddedAt ELSE layer.AddedAt
    ELSE IF layer.AddedAt = ZeroTime THEN t ELSE layer.AddedAt

\* --------------------------------------------------------- AddLayer actions
AddLock(c, layer) ==
    /\ cpc[c] = "idle"
    /\ calls < MaxCalls
    /\ CanLock(mutex)
    /\ mutex' = c
    /\ calls' = calls + 1
    /\ cpc' = [cpc EXCEPT ![c] = "add_switch"]
    /\ carg' = [carg EXCEPT ![c] = layer]
    /\ cpre' = [cpre EXCEPT ![c] = layers]
    /\ center' = [center EXCEPT ![c] = now]
    /\ UNCHANGED <<layers, isRunning, pixelBuffer, startTime, now, cret>>
    /\ UNCHANGED <<tickVars, loopVars>>
    /\ UNCHANGED <<fnVars, list>>

AddSwitch(c) ==
    /\ cpc[c] = "add_switch"
    /\ LET r == ClassifyLayer(carg[c], now) IN
        /\ carg' = [carg EXCEPT ![c] = r.layer]
        /\ IF r.ok
           THEN /\ cpc' = [cpc EXCEPT ![c] = "add_range"]
                /\ cret' = cret
           ELSE /\ cpc' = [cpc EXCEPT ![c] = "add_return"]
                /\ cret' = [cret EXCEPT ![c] = "err"]
    /\ UNCHANGED <<layers, mutex, isRunning, pixelBuffer, startTime, now,
                   calls, cpre, center>>
    /\ UNCHANGED <<tickVars, loopVars>>
    /\ UNCHANGED <<fnVars, list>>

\* One iteration of the Range over the store that deletes another BASE layer.
AddRangeDelete(c) ==
    /\ cpc[c] = "add_range"
    /\ carg[c].Type = "BASE"
    /\ \E k \in DOMAIN layers :
        /\ IsOtherBase(layers[k], carg[c])
        /\ layers' = Delete(layers, k)
    /\ UNCHANGED <<mutex, isRunning, pixelBuffer, startTime, now>>
    /\ UNCHANGED <<apiVars, tickVars, loopVars>>
    /\ list' = Observe(list, layers')
    /\ UNCHANGED fnVars

\* The Range is over (or was skipped); Load, fix AddedAt, Store.
AddStore(c) ==
    /\ cpc[c] = "add_range"
    /\ carg[c].Type = "BASE" =>
          ~ \E k \in DOMAIN layers : IsOtherBase(layers[k], carg[c])
    /\ LET layer == [carg[c] EXCEPT !.AddedAt = ResolveAddedAt(carg[c], layers, now)] IN
        /\ layers' = Store(layers, layer.Name, layer)
        /\ carg' = [carg EXCEPT ![c] = layer]
    /\ cpc' = [cpc EXCEPT ![c] = "add_return"]
    /\ cret' = [cret EXCEPT ![c] = "ok"]
    /\ UNCHANGED <<mutex, isRunning, pixelBuffer, startTime, now, calls, cpre, center>>
    /\ UNCHANGED <<tickVars, loopVars>>
    /\ list' = Observe(list, layers')
    /\ UNCHANGED fnVars

\* ------------------------------------------------------ RemoveLayer actions
\* Variant of RemoveOutcome: the Load check is missing.
RemoveOutcome_NoCheck(m, name) == [ret |-> "ok", layers |-> Delete(m, name)]

\* Load, then the error or the Delete: the result and the store afterwards.
RemoveOutcome(m, name) ==
    IF name \notin DOMAIN m
    THEN [ret |-> "err", layers |-> m]
    ELSE [ret |-> "ok", layers |-> Delete(m, name)]

RemoveLock(c, name) ==
    /\ cpc[c] = "idle"
    /\ calls < MaxCalls
    /\ CanLock(mutex)
    /\ mutex' = c
    /\ calls' = calls + 1
    /\ cpc' = [cpc EXCEPT ![c] = "remove"]
    /\ carg' = [carg EXCEPT ![c] = [Name |-> name]]
    /\ cpre' = [cpre EXCEPT ![c] = layers]
    /\ center' = [center EXCEPT ![c] = now]
    /\ UNCHANGED <<layers, isRunning, pixelBuffer, startTime, now, cret>>
    /\ UNCHANGED <<tickVars, loopVars>>
    /\ UNCHANGED <<fnVars, list>>

RemoveBody(c) ==
    /\ cpc[c] = "remove"
    /\ LET r == RemoveOutcome(layers, carg[c].Name) IN
        /\ cret' = [cret EXCEPT ![c] = r.ret]
        /\ layers' = r.layers
    /\ cpc' = [cpc EXCEPT ![c] = "remove_return"]
    /\ UNCHANGED <<mutex, isRunning, pixelBuffer, startTime, now, calls, carg, cpre, center>>
    /\ UNCHANGED <<tickVars, loopVars>>
    /\ list' = Observe(list, layers')
    /\ UNCHANGED fnVars

\* The deferred p.mutex.Unlock() of AddLayer and RemoveLayer, and the return.
Return(c) ==
    /\ cpc[c] \in {"add_return", "remove_return"}
    /\ mutex' = Free
    /\ cpc' = [cpc EXCEPT ![c] = "idle"]
    /\ carg' = [carg EXCEPT ![c] = NoArg]
    /\ cpre' = [cpre EXCEPT ![c] = NoLayers]
    /\ cret' = [cret EXCEPT ![c] = "none"]
    /\ center' = [center EXCEPT ![c] = ZeroTime]
    /\ UNCHANGED <<layers, isRunning, pixelBuffer, startTime, now, calls>>
    /\ UNCHANGED <<tickVars, loopVars>>
    /\ UNCHANGED <<fnVars, list>>

\* ---------------------------------------------------------- renderFrame logic
\* The eviction test of the Range callback, on the tick's clock reading cur
\* (seconds since start) and the pipeline start time.
TimeElapsed(layer, cur, start) == cur - (layer.AddedAt - start)

\* Variant of Expired: the test for a positive timeout is missing.
Expired_NoGuard(layer, cur, start) ==
    /\ layer.Type = "TEMPORARY"
    /\ TimeElapsed(layer, cur, start) > layer.TimeoutSeconds

\* Variant of Expired: the layer expires when the elapsed time reaches the timeout.
Expired_AtTimeout(layer, cur, start) ==
    /\ layer.Type = "TEMPORARY"
    /\ TimeElapsed(layer, cur, start) >= layer.TimeoutSeconds
    /\ layer.TimeoutSeconds > 0

Expired(layer, cur, start) ==
    /\ layer.Type = "TEMPORARY"
    /\ TimeElapsed(layer, cur, start) > layer.TimeoutSeconds
    /\ layer.TimeoutSeconds > 0

\* Variant of LayerElapsedTime: the clock is read again for each layer.
LayerElapsedTime_Fresh(layer, cur, start) == TimeElapsed(layer, now - start, start)

\* The layerElapsedTime of the execute loop, on the tick's clock reading.
LayerElapsedTime(layer, cur, start) == TimeElapsed(layer, cur, start)

\* Range visits the entries in an unspecified order.
RangeOrders(m) ==
    {o \in [1..Cardinality(DOMAIN m) -> DOMAIN m] :
        \A i, j \in DOMAIN o : i # j => o[i] # o[j]}

\* The layers appended to activeLayers when Range visits in order o.
CollectActive(m, o, cur, start) ==
    SelectSeq([i \in DOMAIN o |-> m[o[i]]], LAMBDA l : ~Expired(l, cur, start))

\* The entries the Range callback deletes.
EvictExpired(m, cur, start) ==
    [n \in {k \in DOMAIN m : ~Expired(m[k], cur, start)} |-> m[n]]

\* Variant of Less: the BASE tests are missing.
Less_PriorityOnly(a, b) == a.Priority < b.Priority

\* The less function handed to sort.Slice.
Less(a, b) ==
    IF a.Type = "BASE" THEN TRUE
    ELSE IF b.Type = "BASE" THEN FALSE
    ELSE a.Priority < b.Priority

\* sort.Slice is a pattern-defeating quicksort driven by less: a slice of at
\* most MaxInsertion elements is insertion-sorted; a longer one is partitioned
\* around a pivot first.
Swap(s, i, j) == [s EXCEPT ![i] = s[j], ![j] = s[i]]

RECURSIVE SiftDown(_, _)
SiftDown(s, j) ==
    IF j > 1 /\ Less(s[j], s[j - 1]) THEN SiftDown(Swap(s, j, j - 1), j - 1) ELSE s

RECURSIVE InsertionSort(_, _)
InsertionSort(s, i) ==
    IF i > Len(s) THEN s ELSE InsertionSort(SiftDown(s, i), i + 1)

\* order2 and median of the pivot choice: the index of the median of three
\* elements and the number of swaps made to find it.
Order2(s, a, b) == IF Less(s[b], s[a]) THEN <<b, a, 1>> ELSE <<a, b, 0>>

Median(s, a, b, c) ==
    LET o1 == Order2(s, a, b)
        o2 == Order2(s, o1[2], c)
        o3 == Order2(s, o1[1], o2[1])
    IN [idx |-> o3[2], swaps |-> o1[3] + o2[3] + o3[3]]

\* choosePivot for a slice of 8 to 49 elements: the median of the elements at
\* one, two and three quarters; no swaps hint at an increasing slice.
ChoosePivot(s) ==
    LET q == Len(s) \div 4
        m == Median(s, q * 1 + 1, q * 2 + 1, q * 3 + 1)
    IN [pivot |-> m.idx, increasing |-> m.swaps = 0]

\* partialInsertionSort on a slice shorter than 50 only reports whether the
\* slice is already in order.
InOrder(s) == \A i \in 2..Len(s) : ~Less(s[i], s[i - 1])

\* partition: the pivot, swapped to the front, splits the rest; i moves up
\* over smaller elements, j down over the others, and they swap on meeting.
RECURSIVE ScanUp(_, _, _)
ScanUp(s, i, j) == IF i <= j /\ Less(s[i], s[1]) THEN ScanUp(s, i + 1, j) ELSE i

RECURSIVE ScanDown(_, _, _)
ScanDown(s, i, j) == IF i <= j /\ ~Less(s[j], s[1]) THEN ScanDown(s, i, j - 1) ELSE j

RECURSIVE PartitionLoop(_, _, _)
PartitionMeet(s, i, j) ==
    IF i > j THEN [s |-> Swap(s, j, 1), mid |-> j]
    ELSE PartitionLoop(Swap(s, i, j), i + 1, j - 1)

PartitionDown(s, i, j) == PartitionMeet(s, i, ScanDown(s, i, j))

PartitionLoop(s, i, j) == PartitionDown(s, ScanUp(s, i, j), j)

Partition(s, pivot) == PartitionLoop(Swap(s, 1, pivot), 2, Len(s))

\* pdqsort on MaxInsertion + 1 elements: one partition, then both sides, each
\* of at most MaxInsertion elements, are insertion-sorted.
PdqSort(s) ==
    LET c == ChoosePivot(s)
        r == Partition(s, c.pivot)
    IN IF c.increasing /\ InOrder(s) THEN s
       ELSE InsertionSort(SubSeq(r.s, 1, r.mid - 1), 2) \o <<r.s[r.mid]>>
              \o InsertionSort(SubSeq(r.s, r.mid + 1, Len(s)), 2)

SortSlice(s) == IF Len(s) <= MaxInsertion THEN InsertionSort(s, 2) ELSE PdqSort(s)

\* Variant of FixChan: no gamma curve, the channel is only scaled.
FixChan_Linear(v, bias) ==
    IF v = NaN THEN 0 ELSE Min(MaxChan, (v * bias) \div (Unit * MaxChan))

\* fixColor on one channel: gamma 2 on the 0..255 scale, times the channel's
\* bias, capped at 255 and truncated to uint8.  For NaN, math.Pow and
\* math.Min return NaN, which the arm64 build converts to 0.
FixChan(v, bias) ==
    IF v = NaN THEN 0
    ELSE Min(MaxChan, (v * v * bias) \div (Unit * Unit * MaxChan * MaxChan))

FixColor(r, g, b) == <<FixChan(r, MaxChan), FixChan(g, GreenBias), FixChan(b, BlueBias)>>

\* pixelBufferBytes
FixFrame(buf) ==
    [i \in Pixels |-> FixColor(buf[(i \div 3) * 3], buf[(i \div 3) * 3 + 1],
                               buf[(i \div 3) * 3 + 2])[(i % 3) + 1]]

\* Variant of ClearBuffer: the buffer keeps what the last tick left in it.
ClearBuffer_Keep(buf) == buf

\* for i := range p.pixelBuffer { p.pixelBuffer[i] = 0 }
ClearBuffer(buf) == [i \in DOMAIN buf |-> 0]

\* Step 4 as a whole: the layers ls[k..] executed in order on buf.
RECURSIVE RunLayers(_, _, _, _, _)
RunLayers(ls, k, buf, cur, start) ==
    IF k > Len(ls) THEN buf
    ELSE RunLayers(ls, k + 1,
                   Execute(ls[k], buf, cur, TimeElapsed(ls[k], cur, start)).buf,
                   cur, start)

\* The bytes renderFrame sends for the store m at clock reading cur when the
\* Range visits the entries in order o.
FrameOf(m, o, cur, start) ==
    FixFrame(RunLayers(SortSlice(CollectActive(m, o, cur, start)), 1,
                       ZeroBuffer, cur, start))

\* Variant of MutexAfterCopy: the mutex is released once the store is copied.
MutexAfterCopy_Released(holder) == Free

\* renderFrame defers its Unlock: the holder keeps the mutex after the Range.
MutexAfterCopy(holder) == holder

\* Variant of AfterFrame: a failed frame ends the loop.
AfterFrame_StopOnError(tickFailed) == IF tickFailed THEN "off" ELSE "wait"

\* for range ticker.C: whatever the frame's outcome, the goroutine waits for
\* the next firing.
AfterFrame(tickFailed) == "wait"

NoFrame == <<>>
TickFailed == failed # {} \/ sendResult = "err"

\* ---------------------------------------------------------- StartLoop actions
StartCheck(s) ==
    /\ spc[s] = "idle"
    /\ spc' = [spc EXCEPT ![s] = IF isRunning THEN "done" ELSE "set"]
    /\ UNCHANGED <<layers, mutex, isRunning, pixelBuffer, startTime, now,
                   lpc, tickerC, prevFailed>>
    /\ UNCHANGED <<apiVars, tickVars>>
    /\ UNCHANGED <<fnVars, list>>

\* p.isRunning = true, the ticker is made and the goroutine is started.
StartSpawn(s) ==
    /\ spc[s] = "set"
    /\ isRunning' = TRUE
    /\ spc' = [spc EXCEPT ![s] = "done"]
    /\ lpc' = [lpc EXCEPT ![s] = "wait"]
    /\ UNCHANGED <<layers, mutex, pixelBuffer, startTime, now, tickerC, prevFailed>>
    /\ UNCHANGED <<apiVars, tickVars>>
    /\ UNCHANGED <<fnVars, list>>

\* ---------------------------------------------------------- the render loop
\* The ticker puts a firing into ticker.C (capacity one; a firing that finds
\* the channel full is dropped).
TimerFire(g) ==
    /\ lpc[g] # "off"
    /\ ~tickerC[g]
    /\ tickerC' = [tickerC EXCEPT ![g] = TRUE]
    /\ UNCHANGED <<layers, mutex, isRunning, pixelBuffer, startTime, now,
                   spc, lpc, prevFailed>>
    /\ UNCHANGED <<apiVars, tickVars>>
    /\ UNCHANGED <<fnVars, list>>

\* for range ticker.C: receive a firing and call renderFrame.
LoopReceive(g) ==
    /\ lpc[g] = "wait"
    /\ tickerC[g]
    /\ tickerC' = [tickerC EXCEPT ![g] = FALSE]
    /\ lpc' = [lpc EXCEPT ![g] = "lock"]
    /\ UNCHANGED <<layers, mutex, isRunning, pixelBuffer, startTime, now,
                   spc, prevFailed>>
    /\ UNCHANGED <<apiVars, tickVars>>
    /\ UNCHANGED <<fnVars, list>>

\* p.mutex.Lock() and the tick's single clock reading.
RenderLock(g) ==
    /\ lpc[g] = "lock"
    /\ CanLock(mutex)
    /\ mutex' = g
    /\ currentTime' = now - startTime
    /\ tickPre' = layers
    /\ lpc' = [lpc EXCEPT ![g] = "snapshot"]
    /\ UNCHANGED <<layers, isRunning, pixelBuffer, startTime, now,
                   spc, tickerC, prevFailed>>
    /\ UNCHANGED <<activeLayers, pos, executed, execArgs, failed, frame, sendResult>>
    /\ UNCHANGED apiVars
    /\ UNCHANGED <<fnVars, list>>

\* Step 1: Range over the store, deleting expired layers, collecting the rest.
RenderSnapshot(g) ==
    /\ lpc[g] = "snapshot"
    /\ \E o \in RangeOrders(layers) :
        activeLayers' = CollectActive(layers, o, currentTime, startTime)
    /\ layers' = EvictExpired(layers, currentTime, startTime)
    /\ mutex' = MutexAfterCopy(mutex)
    /\ lpc' = [lpc EXCEPT ![g] = "sort"]
    /\ UNCHANGED <<isRunning, pixelBuffer, startTime, now,
                   spc, tickerC, prevFailed>>
    /\ UNCHANGED <<currentTime, pos, tickPre, executed, execArgs, failed, frame,
                   sendResult>>
    /\ UNCHANGED apiVars
    /\ list' = Observe(list, layers')
    /\ UNCHANGED fnVars

\* Steps 2 and 3: sort the active layers, clear the pixel buffer.
RenderSort(g) ==
    /\ lpc[g] = "sort"
    /\ activeLayers' = SortSlice(activeLayers)
    /\ pixelBuffer' = ClearBuffer(pixelBuffer)
    /\ pos' = 1
    /\ lpc' = [lpc EXCEPT ![g] = "execute"]
    /\ UNCHANGED <<layers, mutex, isRunning, startTime, now,
                   spc, tickerC, prevFailed>>
    /\ UNCHANGED <<currentTime, tickPre, executed, execArgs, failed, frame,
                   sendResult>>
    /\ UNCHANGED apiVars
    /\ UNCHANGED <<fnVars, list>>

\* Step 4, one iteration: execute the next layer; an error is logged only.
RenderExecute(g) ==
    /\ lpc[g] = "execute"
    /\ pos <= Len(activeLayers)
    /\ LET layer == activeLayers[pos]
           layerElapsedTime == LayerElapsedTime(layer, currentTime, startTime)
           r == Execute(layer, pixelBuffer, currentTime, layerElapsedTime) IN
        /\ pixelBuffer' = r.buf
        /\ failed' = IF r.err THEN failed \cup {layer.Name} ELSE failed
        /\ executed' = Append(executed, layer.Name)
        /\ execArgs' = Append(execArgs, [layer |-> layer,
                                         pipelineTime |-> currentTime,
                                         layerElapsedTime |-> layerElapsedTime])
    /\ pos' = pos + 1
    /\ UNCHANGED <<layers, mutex, isRunning, startTime, now>>
    /\ UNCHANGED <<currentTime, activeLayers, tickPre, frame, sendResult>>
    /\ UNCHANGED <<apiVars, loopVars>>
    /\ UNCHANGED <<fnVars, list>>

\* Color-correct the buffer and hand the bytes to SendColors, which may fail.
RenderSend(g) ==
    /\ lpc[g] = "execute"
    /\ pos > Len(activeLayers)
    /\ frame' = FixFrame(pixelBuffer)
    /\ \E r \in {"ok", "err"} : sendResult' = r
    /\ lpc' = [lpc EXCEPT ![g] = "unlock"]
    /\ UNCHANGED <<layers, mutex, isRunning, pixelBuffer, startTime, now,
                   spc, tickerC, prevFailed>>
    /\ UNCHANGED <<currentTime, activeLayers, pos, tickPre, executed, execArgs,
                   failed>>
    /\ UNCHANGED apiVars
    /\ UNCHANGED <<fnVars, list>>

\* The deferred p.mutex.Unlock(); renderFrame returns to the loop.
RenderUnlock(g) ==
    /\ lpc[g] = "unlock"
    /\ mutex' = Free
    /\ lpc' = [lpc EXCEPT ![g] = AfterFrame(TickFailed)]
    /\ prevFailed' = [prevFailed EXCEPT ![g] = prevFailed[g] \/ TickFailed]
    /\ currentTime' = 0
    /\ activeLayers' = <<>>
    /\ pos' = 0
    /\ tickPre' = NoLayers
    /\ executed' = <<>>
    /\ execArgs' = <<>>
    /\ failed' = {}
    /\ frame' = NoFrame
    /\ sendResult' = "none"
    /\ UNCHANGED <<layers, isRunning, pixelBuffer, startTime, now, spc, tickerC>>
    /\ UNCHANGED apiVars
    /\ UNCHANGED <<fnVars, list>>

\* ------------------------------------------------------------------ the clock
Advance ==
    /\ now < MaxTime
    /\ now' = now + 1
    /\ UNCHANGED <<layers, mutex, isRunning, pixelBuffer, startTime>>
    /\ UNCHANGED <<apiVars, tickVars, loopVars>>
    /\ UNCHANGED <<fnVars, list>>

\* ------------------------------------------------------------ specification
\* The state NewPipelineManager returns: the default black BASE layer, stored
\* with AddedAt = startTime; the loop is not started.
BaseBlack ==
    [Name |-> "base_black", Code |-> "black", Type |-> "BASE", Priority |-> 0,
     BlendMode |-> ModeBase, TimeoutSeconds |-> 0, AddedAt |-> ZeroTime + 1]

StoreInit ==
    /\ startTime = ZeroTime + 1
    /\ now = startTime
    /\ layers = Store(NoLayers, "base_black", BaseBlack)
    /\ mutex = Free
    /\ isRunning = FALSE

ApiInit ==
    /\ calls = 0
    /\ cpc = [c \in Clients |-> "idle"]
    /\ carg = [c \in Clients |-> NoArg]
    /\ cpre = [c \in Clients |-> NoLayers]
    /\ cret = [c \in Clients |-> "none"]
    /\ center = [c \in Clients |-> ZeroTime]

LoopInit ==
    /\ spc = [s \in Starters |-> "idle"]
    /\ lpc = [s \in Starters |-> "off"]
    /\ tickerC = [s \in Starters |-> FALSE]
    /\ prevFailed = [s \in Starters |-> FALSE]

TickIdle ==
    /\ currentTime = 0
    /\ activeLayers = <<>>
    /\ pos = 0
    /\ tickPre = NoLayers
    /\ executed = <<>>
    /\ execArgs = <<>>
    /\ failed = {}
    /\ frame = NoFrame
    /\ sendResult = "none"

PipelineInit ==
    /\ StoreInit
    /\ pixelBuffer = ZeroBuffer
    /\ ApiInit
    /\ LoopInit
    /\ TickIdle

SideIdle ==
    /\ host = HostIdle
    /\ spi = SpiIdle
    /\ fix = FixIdle
    /\ list = ListIdle

Init == PipelineInit /\ SideIdle

Next ==
    \/ \E c \in Clients, layer \in Requests : AddLock(c, layer)
    \/ \E c \in Clients : AddSwitch(c)
    \/ \E c \in Clients : AddRangeDelete(c)
    \/ \E c \in Clients : AddStore(c)
    \/ \E c \in Clients, name \in Names : RemoveLock(c, name)
    \/ \E c \in Clients : RemoveBody(c)
    \/ \E c \in Clients : Return(c)
    \/ \E s \in Starters : StartCheck(s)
    \/ \E s \in Starters : StartSpawn(s)
    \/ \E g \in Starters : TimerFire(g)
    \/ \E g \in Starters : LoopReceive(g)
    \/ \E g \in Starters : RenderLock(g)
    \/ \E g \in Starters : RenderSnapshot(g)
    \/ \E g \in Starters : RenderSort(g)
    \/ \E g \in Starters : RenderExecute(g)
    \/ \E g \in Starters : RenderSend(g)
    \/ \E g \in Starters : RenderUnlock(g)
    \/ Advance

Spec == Init /\ [][Next]_vars

\* ------------------------------------------- the host functions on their own
\* One script invocation that calls set_pixel and get_pixel with the same
\* index.  The arguments are Lua numbers: whole and fractional, below 0 and
\* above 1, and NaN for the channels; the buffer the script finds is black or,
\* as left by an earlier layer of the tick, white.
LuaNumbers == {NaN} \cup ((0 - Unit)..(Unit + 1))
IndexArgs == (0 - Unit)..((LEDCount + 1) * Unit)
WhiteBuffer == [i \in Pixels |-> MaxChan * Unit]
HostBuffers == {ZeroBuffer, WhiteBuffer}

HostArgs ==
    {[pc |-> "args", wrote |-> FALSE, index |-> i, r |-> r, g |-> g, b |-> b,
      pre |-> ZeroBuffer, ret |-> <<0, 0, 0>>] :
        i \in IndexArgs, r \in LuaNumbers, g \in LuaNumbers, b \in LuaNumbers}

HostSetPixel ==
    /\ host.pc = "args"
    /\ pixelBuffer' = SetPixel(pixelBuffer, host.index, host.r, host.g, host.b)
    /\ host' = [host EXCEPT !.pc = "set", !.wrote = TRUE, !.pre = pixelBuffer]
    /\ UNCHANGED <<layers, mutex, isRunning, startTime, now>>
    /\ UNCHANGED <<apiVars, tickVars, loopVars>>
    /\ UNCHANGED <<spi, fix, list>>

HostGetPixel ==
    /\ host.pc \in {"args", "set"}
    /\ host' = [host EXCEPT !.pc = "got", !.ret = GetPixel(pixelBuffer, host.index)]
    /\ UNCHANGED <<layers, mutex, isRunning, pixelBuffer, startTime, now>>
    /\ UNCHANGED <<apiVars, tickVars, loopVars>>
    /\ UNCHANGED <<spi, fix, list>>

HostInit ==
    /\ StoreInit
    /\ pixelBuffer \in HostBuffers
    /\ ApiInit
    /\ LoopInit
    /\ TickIdle
    /\ host \in HostArgs
    /\ spi = SpiIdle
    /\ fix = FixIdle
    /\ list = ListIdle

HostNext == HostSetPixel \/ HostGetPixel

HostSpec == HostInit /\ [][HostNext]_vars

\* ================================================================== claims
BaseNames(m) == {n \in DOMAIN m : m[n].Type = "BASE"}
ActiveNames == {activeLayers[i].Name : i \in 1..Len(activeLayers)}
ExecutedNames == {executed[i] : i \in 1..Len(executed)}
TickPhases == {"snapshot", "sort", "execute", "unlock"}
AfterSnapshot == {"sort", "execute", "unlock"}
LaterPhases == {"execute", "unlock"}
InTick == \E g \in Starters : lpc[g] \in TickPhases
AtFrameEnd == \E g \in Starters : lpc[g] = "unlock"
InSection ==
    {c \in Clients : cpc[c] # "idle"} \cup {g \in Starters : lpc[g] \in TickPhases}

\* C1: in every reachable state, including those in the middle of AddLayer,
\* RemoveLayer and a tick, the store holds at most one BASE layer; and when
\* an AddLayer of a BASE layer X has succeeded, X is the only BASE layer.
C1_SingleBase ==
    /\ Cardinality(BaseNames(layers)) <= 1
    /\ \A c \in Clients :
          (cpc[c] = "add_return" /\ cret[c] = "ok" /\ carg[c].Type = "BASE")
              => (BaseNames(layers) = {carg[c].Name} /\ layers[carg[c].Name] = carg[c])

\* A BASE layer has just been added under a new name while another BASE
\* layer was in the store.
C1_Witness ==
    \E c \in Clients :
        /\ cpc[c] = "add_return" /\ cret[c] = "ok" /\ carg[c].Type = "BASE"
        /\ BaseNames(cpre[c]) # {}
        /\ carg[c].Name \notin BaseNames(cpre[c])

\* C2: when AddLayer succeeds on a name already in the store, a BASE add
\* leaves the stored AddedAt equal to the replaced entry's AddedAt, whatever
\* that entry's kind, and a TEMPORARY add stores a clock reading taken during
\* the call.
C2_AddedAt ==
    \A c \in Clients :
        (cpc[c] = "add_return" /\ cret[c] = "ok" /\ carg[c].Name \in DOMAIN cpre[c])
            => /\ carg[c].Type = "BASE" =>
                    layers[carg[c].Name].AddedAt = cpre[c][carg[c].Name].AddedAt
               /\ carg[c].Type = "TEMPORARY" =>
                    /\ center[c] <= layers[carg[c].Name].AddedAt
                    /\ layers[carg[c].Name].AddedAt <= now

\* A BASE add has replaced a TEMPORARY entry that was added before the call
\* began, so inheriting and resetting AddedAt give different values.
C2_Witness ==
    \E c \in Clients :
        /\ cpc[c] = "add_return" /\ cret[c] = "ok" /\ carg[c].Type = "BASE"
        /\ carg[c].Name \in DOMAIN cpre[c]
        /\ cpre[c][carg[c].Name].Type = "TEMPORARY"
        /\ cpre[c][carg[c].Name].AddedAt < center[c]

\* C3: in a tick, once the Range is over, each TEMPORARY layer with timeout
\* T > 0 that was in the store when the tick began is active (and, by the end
\* of the tick, executed) and still stored if now - added_at <= T, and is
\* neither active nor stored if now - added_at > T; nothing is active that was
\* not in the store when the tick began.
C3_Eviction ==
    \A g \in Starters :
        lpc[g] \in AfterSnapshot =>
            /\ ActiveNames \subseteq DOMAIN tickPre
            /\ \A n \in DOMAIN tickPre :
                  (tickPre[n].Type = "TEMPORARY" /\ tickPre[n].TimeoutSeconds > 0) =>
                      IF (currentTime + startTime) - tickPre[n].AddedAt
                            <= tickPre[n].TimeoutSeconds
                      THEN /\ n \in ActiveNames
                           /\ n \in DOMAIN layers
                           /\ layers[n] = tickPre[n]
                           /\ lpc[g] = "unlock" => n \in ExecutedNames
                      ELSE /\ n \notin ActiveNames
                           /\ n \notin DOMAIN layers

\* One tick has finished with a TEMPORARY layer exactly at its timeout, which
\* it executed, and another past its timeout, which it evicted.
C3_Witness ==
    /\ AtFrameEnd
    /\ \E n, k \in DOMAIN tickPre :
        /\ tickPre[n].Type = "TEMPORARY" /\ tickPre[n].TimeoutSeconds > 0
        /\ (currentTime + startTime) - tickPre[n].AddedAt = tickPre[n].TimeoutSeconds
        /\ n \in ExecutedNames
        /\ tickPre[k].Type = "TEMPORARY" /\ tickPre[k].TimeoutSeconds > 0
        /\ (currentTime + startTime) - tickPre[k].AddedAt > tickPre[k].TimeoutSeconds
        /\ k \notin DOMAIN layers

\* C4: once sorted, a BASE layer stands only in the first place, and no
\* non-BASE layer stands before a non-BASE layer of strictly lower priority;
\* the layers are executed in exactly this order.
C4_SortOrder ==
    \A g \in Starters :
        lpc[g] \in LaterPhases =>
            /\ \A i, j \in 1..Len(activeLayers) :
                  i < j =>
                      /\ activeLayers[j].Type # "BASE"
                      /\ activeLayers[i].Type # "BASE" =>
                            activeLayers[i].Priority <= activeLayers[j].Priority
            /\ Len(executed) = pos - 1
            /\ \A i \in 1..Len(executed) : executed[i] = activeLayers[i].Name

\* A tick has executed three layers: the BASE layer first although a
\* TEMPORARY layer has a lower priority value, then two TEMPORARY layers of
\* different priorities.
C4_Witness ==
    /\ AtFrameEnd
    /\ Len(executed) = 3
    /\ activeLayers[1].Type = "BASE"
    /\ activeLayers[2].Priority < activeLayers[1].Priority
    /\ activeLayers[2].Priority < activeLayers[3].Priority

C6_Remove ==
    \A c \in Clients :
        cpc[c] = "remove_return" =>
            IF carg[c].Name \notin DOMAIN cpre[c]
            THEN cret[c] = "err" /\ layers = cpre[c]
            ELSE /\ cret[c] = "ok"
                 /\ DOMAIN layers = (DOMAIN cpre[c]) \ {carg[c].Name}
                 /\ \A n \in DOMAIN layers : layers[n] = cpre[c][n]

\* A RemoveLayer has succeeded on a store with two entries.
C6_Witness ==
    \E c \in Clients :
        /\ cpc[c] = "remove_return" /\ cret[c] = "ok"
        /\ Cardinality(DOMAIN cpre[c]) = 2
        /\ Cardinality(DOMAIN layers) = 1

\* C7: at most one thread is between its Lock and its Unlock (an AddLayer, a
\* RemoveLayer or a tick), and that thread is the holder of the mutex; so no
\* two ticks overlap and no tick starts while an AddLayer is under way.
C7_MutualExclusion ==
    /\ Cardinality(InSection) <= 1
    /\ \A t \in InSection : mutex = t
    /\ InSection = {} => mutex = Free

\* An AddLayer has deleted the old BASE layer and not yet stored the new one,
\* while the render goroutine has received a firing and waits for the mutex.
C7_Witness ==
    \E c \in Clients, g \in Starters :
        /\ cpc[c] = "add_range"
        /\ BaseNames(cpre[c]) # {}
        /\ BaseNames(layers) = {}
        /\ lpc[g] = "lock"

\* C8 as stated: while a tick executes scripts or has sent its frame, the
\* mutex can be acquired by an AddLayer or RemoveLayer call.
C8_Original ==
    \A g \in Starters : lpc[g] \in LaterPhases => CanLock(mutex)

\* C8, amended: the tick holds the mutex from its Lock until it has sent the
\* frame, so in every phase of a tick the mutex cannot be acquired and no
\* AddLayer or RemoveLayer call is under way.
C8_TickHoldsMutex ==
    \A g \in Starters :
        lpc[g] \in TickPhases =>
            /\ mutex = g
            /\ ~CanLock(mutex)
            /\ \A c \in Clients : cpc[c] = "idle"

\* A tick has sent its frame and still holds the mutex, while the clients
\* have calls left to make.
C8_Witness ==
    \E g \in Starters :
        /\ lpc[g] = "unlock"
        /\ sendResult # "none"
        /\ mutex = g
        /\ calls < MaxCalls

\* C9: a failing script does not end the tick.  At the end of a tick every
\* active layer has been executed, in order; a frame computed from the buffer
\* has been handed to the transport; every failing layer is still stored as
\* it was; and the green channel the "fault" script wrote to the last pixel
\* before faulting is in the buffer, while the blue channel its statement
\* after the fault would have written to pixel 0 is not.
C9_ScriptFailure ==
    \A g \in Starters :
        /\ lpc[g] \in LaterPhases =>
              /\ \A n \in failed : n \in DOMAIN layers /\ layers[n] = tickPre[n]
              /\ (\E i \in 1..(pos - 1) : activeLayers[i].Code = "fault") =>
                    /\ pixelBuffer[(LEDCount - 1) * 3 + 1] = MaxChan * Unit
                    /\ pixelBuffer[2] = 0
        /\ lpc[g] = "unlock" =>
              /\ executed = [i \in 1..Len(activeLayers) |-> activeLayers[i].Name]
              /\ \A i \in 1..Len(activeLayers) :
                    ~Program(activeLayers[i].Code).parses => activeLayers[i].Name \in failed
              /\ sendResult \in {"ok", "err"}
              /\ frame = FixFrame(pixelBuffer)
              /\ (\E i \in 1..Len(activeLayers) : activeLayers[i].Code = "fault") =>
                    frame[(LEDCount - 1) * 3 + 1] = GreenBias

\* A tick has finished in which a layer faulted after a write, a layer after
\* it was executed and painted pixel 0 red, and the frame was sent.
C9_Witness ==
    /\ AtFrameEnd
    /\ sendResult = "ok"
    /\ \E i, j \in 1..Len(activeLayers) :
        /\ i < j
        /\ activeLayers[i].Code = "fault"
        /\ activeLayers[i].Name \in failed
        /\ activeLayers[j].Code = "red0"
    /\ frame[0] = MaxChan
    /\ frame[(LEDCount - 1) * 3 + 1] = GreenBias

\* C10: once a tick of a render goroutine has had a script or transport
\* failure, the pipeline is still running, the goroutine is still in its loop,
\* and each tick it ends has executed every active layer and attempted a send.
C10_LoopSurvives ==
    \A g \in Starters :
        (prevFailed[g] \/ (lpc[g] = "unlock" /\ TickFailed)) =>
            /\ isRunning
            /\ lpc[g] \in {"wait", "lock"} \cup TickPhases
            /\ lpc[g] = "unlock" =>
                  /\ sendResult \in {"ok", "err"}
                  /\ Len(executed) = Len(activeLayers)

\* After an earlier tick with a script or transport failure, a
\* further tick has run to its end and its send has succeeded.
C10_Witness ==
    \E g \in Starters :
        /\ prevFailed[g]
        /\ lpc[g] = "unlock"
        /\ sendResult = "ok"
        /\ failed = {}

\* ------------------------------------------------------ fixColor on its own
\* The channel values handed to fixColor: what set_pixel can have stored,
\* from 0.0 to 255.0 and NaN, with whole and fractional values.
ChannelSamples ==
    {NaN, 0, 1, Unit, 16 * Unit, 127 * Unit + 1, 128 * Unit, 254 * Unit,
     MaxChan * Unit}

FixArgs ==
    {[pc |-> "args", in |-> <<r, g, b>>, out |-> <<0, 0, 0>>] :
        r \in ChannelSamples, g \in ChannelSamples, b \in ChannelSamples}

FixCall ==
    /\ fix.pc = "args"
    /\ fix' = [fix EXCEPT !.pc = "done",
                          !.out = FixColor(fix.in[1], fix.in[2], fix.in[3])]
    /\ UNCHANGED <<layers, mutex, isRunning, pixelBuffer, startTime, now>>
    /\ UNCHANGED <<apiVars, tickVars, loopVars>>
    /\ UNCHANGED <<host, spi, list>>

FixInit ==
    /\ PipelineInit
    /\ host = HostIdle
    /\ spi = SpiIdle
    /\ fix \in FixArgs
    /\ list = ListIdle

FixNext == FixCall

FixSpec == FixInit /\ [][FixNext]_vars

\* ------------------------------------------------ the SPI encoder on its own
\* encode_byte: eight transmit bytes for one colour byte, from bit 7 down to
\* bit 0, DATA_HIGH for a set bit and DATA_LOW for a clear one.
RECURSIVE Pow2(_)
Pow2(n) == IF n = 0 THEN 1 ELSE 2 * Pow2(n - 1)
BitSet(color_byte, i) == (color_byte \div Pow2(i)) % 2 = 1

\* Variant of encode_byte: the bits are sent from bit 0 up to bit 7.
encode_byte_LsbFirst(color_byte) ==
    [k \in 1..8 |-> IF BitSet(color_byte, k - 1) THEN DATA_HIGH ELSE DATA_LOW]

RECURSIVE EncodeFrom(_, _)
EncodeFrom(color_byte, i) ==
    IF i < 0 THEN <<>>
    ELSE <<IF BitSet(color_byte, i) THEN DATA_HIGH ELSE DATA_LOW>>
             \o EncodeFrom(color_byte, i - 1)

encode_byte(color_byte) == EncodeFrom(color_byte, 7)

\* Writing eight bytes at current_ptr, a 0-based offset into the buffer.
WriteAt(tx, ptr, bytes) ==
    [j \in DOMAIN tx |->
        IF j - 1 >= ptr /\ j - 1 < ptr + Len(bytes) THEN bytes[j - ptr] ELSE tx[j]]

\* The loop of ws2812_send_colors over the LEDs i .. num_leds - 1: g, then r,
\* then b, each advancing the pointer by 8.
RECURSIVE EncodeLeds(_, _, _, _)
EncodeLeds(tx, rgb_data, i, num_leds) ==
    IF i >= num_leds THEN tx
    ELSE LET r == rgb_data[i * 3 + 0 + 1]
             g == rgb_data[i * 3 + 1 + 1]
             b == rgb_data[i * 3 + 2 + 1]
             ptr == i * 24
         IN EncodeLeds(WriteAt(WriteAt(WriteAt(tx, ptr, encode_byte(g)),
                                       ptr + 8, encode_byte(r)),
                               ptr + 16, encode_byte(b)),
                       rgb_data, i + 1, num_leds)

\* calloc(1, buffer_size): a zeroed buffer, then the loop.
TxBuffer(rgb_data, num_leds) ==
    EncodeLeds([j \in 1..(num_leds * BITS_PER_LED + RESET_BYTES) |-> 0],
               rgb_data, 0, num_leds)

\* The calls: a closed (-1) or open descriptor, 0 to MaxLeds LEDs, and colour
\* bytes with all, none, one end or alternate bits set.
ByteSamples == {0, 1, 128, 170, 255}
Descriptors == {0 - 1, 3}
ColorArrays(n) == [1..(n * 3) -> ByteSamples]

SpiArgs ==
    {[pc |-> "args", fd |-> fd, rgb_data |-> d, num_leds |-> n, tx |-> <<>>,
      ret |-> 0] :
        fd \in Descriptors,
        n \in 0..MaxLeds,
        d \in UNION {ColorArrays(k) : k \in 0..MaxLeds}}

\* The early return for a bad descriptor or no LEDs.
SpiReject ==
    /\ spi.pc = "args"
    /\ spi.fd < 0 \/ spi.num_leds <= 0
    /\ spi' = [spi EXCEPT !.pc = "done", !.ret = 0 - 1]
    /\ UNCHANGED <<layers, mutex, isRunning, pixelBuffer, startTime, now>>
    /\ UNCHANGED <<apiVars, tickVars, loopVars>>
    /\ UNCHANGED <<host, fix, list>>

\* The buffer is allocated and filled.
SpiEncode ==
    /\ spi.pc = "args"
    /\ ~(spi.fd < 0 \/ spi.num_leds <= 0)
    /\ spi' = [spi EXCEPT !.pc = "encoded", !.tx = TxBuffer(spi.rgb_data, spi.num_leds)]
    /\ UNCHANGED <<layers, mutex, isRunning, pixelBuffer, startTime, now>>
    /\ UNCHANGED <<apiVars, tickVars, loopVars>>
    /\ UNCHANGED <<host, fix, list>>

\* The ioctl sends the buffer and succeeds or fails.
SpiTransfer ==
    /\ spi.pc = "encoded"
    /\ \E ret \in {0 - 1, Len(spi.tx)} : spi' = [spi EXCEPT !.pc = "done", !.ret = ret]
    /\ UNCHANGED <<layers, mutex, isRunning, pixelBuffer, startTime, now>>
    /\ UNCHANGED <<apiVars, tickVars, loopVars>>
    /\ UNCHANGED <<host, fix, list>>

SpiInit ==
    /\ PipelineInit
    /\ host = HostIdle
    /\ spi \in {a \in SpiArgs : Len(a.rgb_data) = a.num_leds * 3}
    /\ fix = FixIdle
    /\ list = ListIdle

SpiNext == SpiReject \/ SpiEncode \/ SpiTransfer

SpiSpec == SpiInit /\ [][SpiNext]_vars

\* A channel argument that is a number, not NaN.
IsNum(x) == x # NaN
InStrip(x) == x >= 0 /\ x < LEDCount * Unit
HostArg == <<host.r, host.g, host.b>>

\* C11: within one script invocation, for every index in [0, LEDCount) and
\* all arguments r, g, b, set_pixel(i, r, g, b) followed by get_pixel(i)
\* returns each argument clamped to [0.0, 1.0]: a value between 0.0 and 1.0
\* which, for a numeric argument, is the argument itself, 0.0 for one below
\* 0.0 and 1.0 for one above 1.0.
C11_RoundTrip ==
    (host.pc = "got" /\ host.wrote /\ InStrip(host.index)) =>
        \A k \in 1..3 :
            /\ host.ret[k] >= 0 /\ host.ret[k] <= Unit
            /\ IsNum(HostArg[k]) => host.ret[k] = Max(0, Min(Unit, HostArg[k]))

\* C12 as stated: for every index below 0 or at or above LEDCount, get_pixel
\* returns (0.0, 0.0, 0.0) and set_pixel leaves every slot of the buffer as
\* it was; both calls return without a script error.
C12_Original ==
    ~InStrip(host.index) =>
        /\ host.pc = "got" => host.ret = <<0, 0, 0>>
        /\ host.pc = "set" => pixelBuffer = host.pre

\* C12: for every index that is at most -1 or at least LEDCount, get_pixel
\* returns (0.0, 0.0, 0.0) and set_pixel leaves every slot of the buffer as
\* it was; both calls return without a script error.
C12_OutOfRange ==
    (host.index <= 0 - Unit \/ host.index >= LEDCount * Unit) =>
        /\ host.pc = "got" => host.ret = <<0, 0, 0>>
        /\ host.pc = "set" => pixelBuffer = host.pre

\* set_pixel has returned from a call with index LEDCount and channels that
\* differ from the white buffer it found.
C12_Witness ==
    /\ host.pc = "set"
    /\ host.index = LEDCount * Unit
    /\ host.pre = WhiteBuffer
    /\ host.r = 0

\* The channel of LED i sent in place c (0, 1, 2): green, red, blue.
SentChannel(i, c) ==
    spi.rgb_data[i * 3 + (IF c = 0 THEN 1 ELSE IF c = 1 THEN 0 ELSE 2) + 1]

\* C13: for num_leds > 0 and any input bytes, the transmit buffer has length
\* num_leds * 24 + RESET_BYTES; the byte at offset i * 24 + c * 8 + k is the
\* 'one' pattern if bit 7 - k of LED i's channel in place c (green, red,
\* blue) is set and the 'zero' pattern if not; the RESET_BYTES bytes after
\* the last LED are zero.
C13_Encoding ==
    spi.pc \in {"encoded", "done"} /\ spi.fd >= 0 /\ spi.num_leds > 0 =>
        /\ Len(spi.tx) = spi.num_leds * 24 + 40
        /\ \A i \in 0..(spi.num_leds - 1), c \in 0..2, k \in 0..7 :
              spi.tx[i * 24 + c * 8 + k + 1] =
                  IF SentChannel(i, c) % Pow2(8 - k) >= Pow2(7 - k) THEN 31 ELSE 3
        /\ \A j \in (spi.num_leds * 24 + 1)..Len(spi.tx) : spi.tx[j] = 0

\* Two LEDs have been encoded, the first with three different channels of
\* which one has alternate bits set and one only bit 0.
C13_Witness ==
    /\ spi.pc = "encoded"
    /\ spi.num_leds = 2
    /\ spi.rgb_data[1] = 170 /\ spi.rgb_data[2] = 1 /\ spi.rgb_data[3] = 255

\* ------------------------------------------------------- GET /api/layers
\* The handler takes no mutex.  Its Range visits each key the store holds
\* when the Range begins once, in any order, and copies the value the key has
\* at the time of the visit; a key deleted by then is skipped.
ListBegin ==
    /\ list.pc = "idle"
    /\ list' = [pc |-> "range", keys |-> DOMAIN layers, out |-> NoLayers,
                seen |-> {layers}]
    /\ UNCHANGED <<layers, mutex, isRunning, pixelBuffer, startTime, now>>
    /\ UNCHANGED <<apiVars, tickVars, loopVars, fnVars>>

ListVisit ==
    /\ list.pc = "range"
    /\ \E k \in list.keys :
        list' = [list EXCEPT !.keys = @ \ {k},
                             !.out = IF k \in DOMAIN layers
                                     THEN Store(@, k, layers[k]) ELSE @]
    /\ UNCHANGED <<layers, mutex, isRunning, pixelBuffer, startTime, now>>
    /\ UNCHANGED <<apiVars, tickVars, loopVars, fnVars>>

\* The Range is over and the map is written to the response.
ListEnd ==
    /\ list.pc = "range"
    /\ list.keys = {}
    /\ list' = [list EXCEPT !.pc = "done"]
    /\ UNCHANGED <<layers, mutex, isRunning, pixelBuffer, startTime, now>>
    /\ UNCHANGED <<apiVars, tickVars, loopVars, fnVars>>

\* One GET /api/layers next to the clients' AddLayer and RemoveLayer calls,
\* which send every name as BASE and as TEMPORARY.
ListRequests == {RenderLayer(n, "red0", t, 0, 0) : n \in Names, t \in ValidTypes}

ListNext ==
    \/ \E c \in Clients, layer \in ListRequests : AddLock(c, layer)
    \/ \E c \in Clients : AddSwitch(c)
    \/ \E c \in Clients : AddRangeDelete(c)
    \/ \E c \in Clients : AddStore(c)
    \/ \E c \in Clients, name \in Names : RemoveLock(c, name)
    \/ \E c \in Clients : RemoveBody(c)
    \/ \E c \in Clients : Return(c)
    \/ ListBegin
    \/ ListVisit
    \/ ListEnd

ListSpec == Init /\ [][ListNext]_vars

\* --------------------------------------------- StartLoop from several callers
\* StartLoop takes no mutex: each caller reads p.isRunning, and later sets it
\* and starts its ticker and goroutine.  The callers here are the call in
\* main and a second, concurrent one; every goroutine started runs the render
\* loop over the store NewPipelineManager left.
Callers == Starters \cup {"aux"}

StartInit ==
    /\ StoreInit
    /\ pixelBuffer = ZeroBuffer
    /\ ApiInit
    /\ spc = [s \in Callers |-> "idle"]
    /\ lpc = [s \in Callers |-> "off"]
    /\ tickerC = [s \in Callers |-> FALSE]
    /\ prevFailed = [s \in Callers |-> FALSE]
    /\ TickIdle
    /\ SideIdle

StartNext ==
    \/ \E s \in Callers : StartCheck(s)
    \/ \E s \in Callers : StartSpawn(s)
    \/ \E g \in Callers : TimerFire(g)
    \/ \E g \in Callers : LoopReceive(g)
    \/ \E g \in Callers : RenderLock(g)
    \/ \E g \in Callers : RenderSnapshot(g)
    \/ \E g \in Callers : RenderSort(g)
    \/ \E g \in Callers : RenderExecute(g)
    \/ \E g \in Callers : RenderSend(g)
    \/ \E g \in Callers : RenderUnlock(g)
    \/ Advance

StartSpec == StartInit /\ [][StartNext]_vars

\* ----------------------------------------------- a tick over thirteen layers
\* The state of a tick after its Range over a store of MaxInsertion + 1
\* TEMPORARY layers, all added at the start time with timeout 0 and any
\* priorities: activeLayers holds them in the order the Range visited them.
SortNames ==
    <<"l01", "l02", "l03", "l04", "l05", "l06", "l07", "l08", "l09", "l10",
      "l11", "l12", "l13">>

SortLayer(k, priority) ==
    [RenderLayer(SortNames[k], "red0", "TEMPORARY", priority, 0)
        EXCEPT !.AddedAt = ZeroTime + 1]

SortInit ==
    /\ startTime = ZeroTime + 1
    /\ now = startTime
    /\ \E pr \in [1..(MaxInsertion + 1) -> Priorities] :
        /\ activeLayers = [k \in 1..(MaxInsertion + 1) |-> SortLayer(k, pr[k])]
        /\ layers = [n \in {SortNames[k] : k \in 1..(MaxInsertion + 1)} |->
                        SortLayer(CHOOSE k \in 1..(MaxInsertion + 1) : SortNames[k] = n,
                                  pr[CHOOSE k \in 1..(MaxInsertion + 1) : SortNames[k] = n])]
    /\ tickPre = layers
    /\ mutex \in Starters
    /\ isRunning = TRUE
    /\ pixelBuffer = ZeroBuffer
    /\ ApiInit
    /\ spc = [s \in Starters |-> "done"]
    /\ lpc = [s \in Starters |-> "sort"]
    /\ tickerC = [s \in Starters |-> FALSE]
    /\ prevFailed = [s \in Starters |-> FALSE]
    /\ currentTime = 0
    /\ pos = 0
    /\ executed = <<>>
    /\ execArgs = <<>>
    /\ failed = {}
    /\ frame = NoFrame
    /\ sendResult = "none"
    /\ SideIdle

SortNext ==
    \/ \E g \in Starters : RenderSort(g)
    \/ \E g \in Starters : RenderExecute(g)
    \/ \E g \in Starters : RenderSend(g)
    \/ \E g \in Starters : RenderUnlock(g)

SortSpec == SortInit /\ [][SortNext]_vars

\* The frame with pixel 0 red and every other channel 0, and the black frame.
RedFrame == [i \in Pixels |-> IF i = 0 THEN 255 ELSE 0]
BlackFrame == [i \in Pixels |-> 0]

\* The store holds the black BASE layer added by NewPipelineManager and the
\* TEMPORARY layer n with timeout 1 whose script is set_pixel(0, 1, 0, 0).
BlackAndRed(m, n) ==
    /\ DOMAIN m = {"base_black", n}
    /\ n # "base_black"
    /\ m["base_black"].Type = "BASE" /\ m["base_black"].Code = "black"
    /\ m[n].Type = "TEMPORARY" /\ m[n].Code = "red0" /\ m[n].TimeoutSeconds = 1

\* C14: with the black BASE layer and a TEMPORARY layer of timeout 1 painting
\* pixel 0 red in the store, a tick run at the time of the TEMPORARY add
\* sends pixel 0 as (255, 0, 0) and every other pixel as (0, 0, 0); a tick run
\* more than 1 after the add sends an all-black frame and leaves the
\* TEMPORARY layer out of the store.
C14_EndToEnd ==
    \A g \in Starters, n \in DOMAIN tickPre :
        (lpc[g] = "unlock" /\ BlackAndRed(tickPre, n)) =>
            /\ (currentTime + startTime) - tickPre[n].AddedAt = 0 => frame = RedFrame
            /\ (currentTime + startTime) - tickPre[n].AddedAt > 1 =>
                  (frame = BlackFrame /\ n \notin DOMAIN layers)

\* A tick has sent the black frame more than 1 after the TEMPORARY add and
\* has evicted the layer.
C14_Witness ==
    \E g \in Starters, n \in DOMAIN tickPre :
        /\ lpc[g] = "unlock" /\ BlackAndRed(tickPre, n)
        /\ (currentTime + startTime) - tickPre[n].AddedAt > 1
        /\ frame = BlackFrame /\ n \notin DOMAIN layers

\* The other half of the scenario: a tick run at the time of the add has sent
\* the red frame.
C14_RedReached ==
    \E g \in Starters, n \in DOMAIN tickPre :
        /\ lpc[g] = "unlock" /\ BlackAndRed(tickPre, n)
        /\ (currentTime + startTime) - tickPre[n].AddedAt = 0
        /\ frame = RedFrame

\* The value fixColor's formula gives for channel value v and scale s: the
\* whole part of (v/255)^2 * s, with v in units of 1/Unit.
IsGammaOf(out, v, s) ==
    /\ out * (Unit * Unit * 255 * 255) <= v * v * s
    /\ v * v * s < (out + 1) * (Unit * Unit * 255 * 255)

\* C16: fixColor changes no state; each output lies in 0..255 and is the
\* gamma-2 curve (x/255)^2 scaled by 255 for red, 0x88 for green and 0x66 for
\* blue, truncated; fixColor(255, 255, 255) = (255, 136, 102) and
\* fixColor(0, 0, 0) = (0, 0, 0).
C16_FixColor ==
    fix.pc = "done" =>
        /\ \A k \in 1..3 : fix.out[k] \in 0..255
        /\ IsNum(fix.in[1]) => IsGammaOf(fix.out[1], fix.in[1], 255)
        /\ IsNum(fix.in[2]) => IsGammaOf(fix.out[2], fix.in[2], 136)
        /\ IsNum(fix.in[3]) => IsGammaOf(fix.out[3], fix.in[3], 102)
        /\ fix.in = <<255 * Unit, 255 * Unit, 255 * Unit>> => fix.out = <<255, 136, 102>>
        /\ fix.in = <<0, 0, 0>> => fix.out = <<0, 0, 0>>
        /\ pixelBuffer = ZeroBuffer /\ layers = Store(NoLayers, "base_black", BaseBlack)

\* fixColor has returned for a triple of three different mid-range values.
C16_Witness ==
    /\ fix.pc = "done"
    /\ fix.in = <<128 * Unit, 127 * Unit + 1, 16 * Unit>>

\* C15: two ticks that start from the same store contents and the same clock
\* reading send the same frame: whatever tick this one is, and in whatever
\* order its Range visits the store, the frame it sends is the one any tick
\* sends for this store and clock reading.
C15_Deterministic ==
    \A g \in Starters :
        lpc[g] = "unlock" =>
            \A o \in RangeOrders(tickPre) :
                FrameOf(tickPre, o, currentTime, startTime) = frame

\* The place of layer x in the slice s.
PlaceIn(s, x) == CHOOSE k \in 1..Len(s) : s[k] = x

\* C17: the sort keeps non-BASE layers of equal priority in the order in
\* which the Range appended them to activeLayers, which is then the order in
\* which the tick executes them.
C17_StableSort ==
    [][\A g \in Starters :
          (lpc[g] = "sort" /\ lpc'[g] = "execute") =>
              \A i, j \in 1..Len(activeLayers) :
                  (/\ i < j
                   /\ activeLayers[i].Type # "BASE"
                   /\ activeLayers[j].Type # "BASE"
                   /\ activeLayers[i].Priority = activeLayers[j].Priority)
                      => PlaceIn(activeLayers', activeLayers[i])
                            < PlaceIn(activeLayers', activeLayers[j])]_vars

\* A layer that no tick may evict: timeout zero or negative, or kind BASE.
NeverExpires(l) == l.TimeoutSeconds <= 0 \/ l.Type = "BASE"

\* The step removes or replaces the stored entry n.
Leaves(n) == n \notin DOMAIN layers' \/ layers'[n] # layers[n]

\* C18: a step of a tick leaves every stored layer with timeout <= 0 and
\* every stored BASE layer in the store as it is; a step that removes or
\* replaces such a layer is the Delete of a RemoveLayer of its name, the
\* Store of an AddLayer of its name, or, for a BASE layer, the Delete in the
\* Range of an AddLayer of another BASE layer.
C18_NeverEvicted ==
    [][\A n \in DOMAIN layers :
          (NeverExpires(layers[n]) /\ Leaves(n)) =>
              /\ \A g \in Starters : lpc[g] \notin TickPhases
              /\ \E c \in Clients :
                    \/ cpc[c] = "remove" /\ carg[c].Name = n
                    \/ cpc[c] = "add_range" /\ cpc'[c] = "add_return"
                         /\ carg[c].Name = n
                    \/ cpc[c] = "add_range" /\ cpc'[c] = "add_range"
                         /\ carg[c].Type = "BASE" /\ layers[n].Type = "BASE"
                         /\ carg[c].Name # n]_vars

\* A tick has ended that found a TEMPORARY layer with a negative timeout and
\* a BASE layer past its positive timeout, and both are still stored and
\* were executed.
C18_Witness ==
    /\ AtFrameEnd
    /\ \E n, k \in DOMAIN tickPre :
        /\ tickPre[n].Type = "TEMPORARY" /\ tickPre[n].TimeoutSeconds < 0
        /\ (currentTime + startTime) - tickPre[n].AddedAt > 0
        /\ tickPre[k].Type = "BASE" /\ tickPre[k].TimeoutSeconds > 0
        /\ (currentTime + startTime) - tickPre[k].AddedAt > tickPre[k].TimeoutSeconds
        /\ {n, k} \subseteq DOMAIN layers
        /\ {n, k} \subseteq ExecutedNames

\* The statements of a script that take effect: none if it does not parse,
\* else those before its first error.
Effective(code) ==
    IF ~Program(code).parses THEN {}
    ELSE {k \in 1..Len(Program(code).body) :
             \A e \in 1..k : Program(code).body[e].op # "error"}

\* The set_pixel calls applied to pixel px in this tick, as <<place of the
\* layer in execution order, place of the statement in its script>>.
WritesTo(px) ==
    {w \in (1..Len(activeLayers)) \X (1..(LEDCount + 3)) :
        /\ w[2] \in Effective(activeLayers[w[1]].Code)
        /\ ToInt(Program(activeLayers[w[1]].Code).body[w[2]].index) = px}

LastWrite(px) ==
    CHOOSE w \in WritesTo(px) :
        \A v \in WritesTo(px) : v[1] < w[1] \/ (v[1] = w[1] /\ v[2] <= w[2])

\* The channel value a set_pixel argument is stored as.
StoredAs(x) == IF x <= 0 THEN 0 ELSE IF x >= Unit THEN 255 * Unit ELSE x * 255

ArgOf(w, c) ==
    LET st == Program(activeLayers[w[1]].Code).body[w[2]]
    IN IF c = 0 THEN st.r ELSE IF c = 1 THEN st.g ELSE st.b

\* C20: at the end of a tick each channel of each pixel holds the value of
\* the last set_pixel applied to that pixel in execution order during this
\* tick, or 0 if none was: nothing of an earlier tick is left.
C20_Overwrite ==
    \A g \in Starters :
        lpc[g] = "unlock" =>
            \A px \in 0..(LEDCount - 1), c \in 0..2 :
                pixelBuffer[px * 3 + c] =
                    IF WritesTo(px) = {} THEN 0 ELSE StoredAs(ArgOf(LastWrite(px), c))

\* A tick has ended in which two layers wrote pixel 0 with different colours
\* and no layer wrote the last pixel.
C20_Witness ==
    /\ AtFrameEnd
    /\ \E i, j \in 1..Len(activeLayers) :
        /\ i < j
        /\ activeLayers[i].Code = "red0"
        /\ activeLayers[j].Code = "green0"
    /\ WritesTo(LEDCount - 1) = {}

\* C19: the entries a GET /api/layers returns are the contents the store had
\* at one instant between the start and the end of its Range, also when
\* AddLayer or RemoveLayer calls run meanwhile; so it never returns two BASE
\* layers.
C19_PointInTime ==
    list.pc = "done" =>
        /\ list.out \in list.seen
        /\ Cardinality(BaseNames(list.out)) <= 1


\* C21: every channel of the pixel buffer lies in [0, 255] after any set_pixel
\* call with arbitrary numeric arguments, and so every channel get_pixel
\* returns lies in [0.0, 1.0].
C21_PreClamped ==
    /\ \A i \in Pixels : pixelBuffer[i] >= 0 /\ pixelBuffer[i] <= MaxChan * Unit
    /\ host.pc = "got" => \A k \in 1..3 : host.ret[k] >= 0 /\ host.ret[k] <= Unit


\* C22: no expired layer paints.  Every execute call a tick makes for a
\* TEMPORARY layer with timeout T > 0 is handed a layer elapsed time between
\* 0 and T, and all execute calls of one tick are handed the same pipeline
\* time, the tick's one clock reading.
C22_NoExpiredPaints ==
    \A i \in 1..Len(execArgs) :
        /\ execArgs[i].pipelineTime = currentTime
        /\ (execArgs[i].layer.Type = "TEMPORARY"
                /\ execArgs[i].layer.TimeoutSeconds > 0) =>
              /\ execArgs[i].layerElapsedTime >= 0
              /\ execArgs[i].layerElapsedTime <= execArgs[i].layer.TimeoutSeconds

\* A tick has executed two layers, the second a TEMPORARY layer whose elapsed
\* time has just reached its timeout, and the clock has moved on since the
\* tick read it.
C22_Witness ==
    /\ Len(execArgs) = 2
    /\ execArgs[2].layer.Type = "TEMPORARY"
    /\ execArgs[2].layer.TimeoutSeconds > 0
    /\ execArgs[2].layerElapsedTime = execArgs[2].layer.TimeoutSeconds
    /\ now - startTime > currentTime


\* C23: however many times StartLoop is called, one after another or by
\* concurrent callers, at most one ticker and one render-loop goroutine are
\* ever started.
C23_StartedOnce == Cardinality({g \in DOMAIN lpc : lpc[g] # "off"}) <= 1

====
